---- MODULE Spec2Model ----
(***************************************************************************)
(* Model of the pokememo game controller (src/src/lib/game-controller.ts)  *)
(* together with the turnSwitch listener the application registers on it   *)
(* (src/unnamed/part_002, App.onTurnEnded).                                *)
(*                                                                         *)
(* The controller runs on one event loop.  Each action below is one task   *)
(* of that loop: a public method call, one firing of the setInterval       *)
(* callback, one firing of a setTimeout callback, or the continuation of   *)
(* initGame after its await.  Methods are operators from a context record  *)
(* (the controller's fields plus the events emitted so far in the task)    *)
(* to a context record.                                                    *)
(*                                                                         *)
(* Spec is the controller in play; there initGame is one step and the deck *)
(* is kept as a function of the card id, the only way the controller ever  *)
(* looks a card up.  DeckSpec follows one initGame call statement by       *)
(* statement (provider call, pair creation, Fisher-Yates loop, install)    *)
(* for every list the provider may resolve with.  ScoreSpec applies        *)
(* calculatePlayerScore to every pair of counters.  CallerSpec adds a      *)
(* caller that assigns to the values the getters and events hand out.      *)
(* AppSpec is the application (src/unnamed/part_002) creating a controller *)
(* per game, with the controllers it has replaced.                         *)
(***************************************************************************)
EXTENDS Integers, Sequences, FiniteSets, TLC

\* ------------------------------------------------------------------ bounds
NumPairs == 2          \* unique Pokemon returned for the modelled difficulty
MaxPlayers == 2        \* largest valid player list the environment passes
MaxFlips == 4          \* accepted flips the environment performs on one controller
MaxGames == 2          \* initGame installs per controller, games per application
TimerSeconds == 2      \* length of the countdown in ticks (the source counts 30)
MaxCount == 16         \* largest matches and totalFlips given to calculatePlayerScore
MaxWrites == 1         \* writes the caller makes to values the controller handed out

\* ------------------------------------------------------- program constants
\* TIMER_DURATION is 30 in the source; the countdown is only decremented,
\* compared with 0 and reset, so the model runs it over TimerSeconds ticks
TIMER_DURATION == TimerSeconds
MAX_PLAYERS_ALLOWED == 4

NumCards == 2 * NumPairs
NoPlayer == -1

VARIABLES
    state,              \* this.state: GameState | null
    timerInterval,      \* this.timerInterval !== null
    intervals,          \* number of setInterval timers set and not cleared
    comparisonTimeout,  \* this.comparisonTimeout: "null", "pending", "cleared"
    timeouts,           \* setTimeout callbacks of compareCards not yet fired, oldest first
    games,              \* number of GameStates installed so far
    flips,              \* number of flips accepted so far
    emitted,            \* events dispatched by the last task, in order
    requested,          \* whether the last task called pokemonService.getRandomPokemon
    result,             \* what the last task returned to its caller
    op,                 \* the last task: its name and its argument
    initTask,           \* DeckSpec: the frame of the initGame call being followed
    scoreCall,          \* ScoreSpec: the frame of the calculatePlayerScore call
    writes,             \* CallerSpec: writes the caller has made to values it received
    previous            \* AppSpec: the controllers the application has replaced, oldest first

vars == <<state, timerInterval, intervals, comparisonTimeout, timeouts, games, flips,
          emitted, requested, result, op, initTask, scoreCall,
          writes, previous>>

\* ------------------------------------------------------------- GameState
Null ==
    [cards |-> <<>>, players |-> <<>>, currentPlayerIndex |-> 0,
     revealedCards |-> <<>>, timeRemaining |-> 0, isPaused |-> FALSE,
     isGameOver |-> FALSE, winner |-> NoPlayer]

IsNull(s) == s = Null

PlayerIdx(s) == DOMAIN s.players

\* arrays are functions on 0 .. length - 1
Length(a) == Cardinality(DOMAIN a)

\* pokemon.service getRandomPokemon, given its shuffled copy of the
\* generation's list: shuffled.slice(0, Math.min(count, shuffled.length))
getRandomPokemon(shuffled, count) ==
    LET len == IF count < Length(shuffled) THEN count ELSE Length(shuffled)
    IN [k \in 0 .. (len - 1) |-> shuffled[k]]

\* the forEach of generateCards: two cards per Pokemon, ids counted up from 0
createPairs(pokemon) ==
    [k \in 0 .. (2 * Length(pokemon) - 1) |->
        [id |-> k, pokemonId |-> pokemon[k \div 2], isFlipped |-> FALSE, isMatched |-> FALSE]]

\* [shuffled[i], shuffled[j]] = [shuffled[j], shuffled[i]], overwriting
\* shuffled[i] and never writing shuffled[j]
swap_overwriting(a, i, j) == [a EXCEPT ![i] = a[j]]

\* [shuffled[i], shuffled[j]] = [shuffled[j], shuffled[i]]
swap(a, i, j) == [a EXCEPT ![i] = a[j], ![j] = a[i]]

\* this.state.cards as flipCard reads it: cards.find(c => c.id === cardId)
cardsById(deck) ==
    [id \in {deck[k].id : k \in DOMAIN deck} |->
        LET card == deck[CHOOSE k \in DOMAIN deck : deck[k].id = id]
        IN [pokemonId |-> card.pokemonId, isFlipped |-> card.isFlipped,
            isMatched |-> card.isMatched]]

\* a generation's list as the service holds it: more Pokemon than any
\* difficulty asks for (the source's generations hold 100 to 151)
Generation == [k \in 0 .. NumPairs |-> k + 1]

\* generateCards with the service's own list: the deck, by card id
generateCards(uniqueCount) ==
    cardsById(createPairs(getRandomPokemon(Generation, uniqueCount)))

NewGameState(n, cards) ==
    [cards |-> cards,
     players |-> [i \in 0 .. (n - 1) |->
                    [score |-> 0, totalFlips |-> 0, matches |-> 0, isActive |-> (i = 0)]],
     currentPlayerIndex |-> 0,
     revealedCards |-> <<>>,
     timeRemaining |-> TIMER_DURATION,
     isPaused |-> TRUE,
     isGameOver |-> FALSE,
     winner |-> NoPlayer]

\* --------------------------------------------------------------- context
\* the controller the application holds in this.gameController, at the
\* start of a task
Ctx ==
    [state |-> state, timerInterval |-> timerInterval, intervals |-> intervals,
     comparisonTimeout |-> comparisonTimeout, timeouts |-> timeouts,
     emitted |-> <<>>, requested |-> FALSE, attached |-> TRUE]

Commit(c, r) ==
    /\ state' = c.state
    /\ timerInterval' = c.timerInterval
    /\ intervals' = c.intervals
    /\ comparisonTimeout' = c.comparisonTimeout
    /\ timeouts' = c.timeouts
    /\ emitted' = c.emitted
    /\ requested' = c.requested
    /\ result' = r

emitEvent(c, ev) == [c EXCEPT !.emitted = Append(@, ev)]

\* ------------------------------------------------------------------ timer
\* startTimer setting an interval whether or not one is held
startTimer_withoutGuard(c) ==
    [c EXCEPT !.timerInterval = TRUE, !.intervals = @ + 1]

\* window.setInterval adds a timer and its id is kept in this.timerInterval
startTimer(c) ==
    IF c.timerInterval THEN c
    ELSE [c EXCEPT !.timerInterval = TRUE, !.intervals = @ + 1]

\* clearInterval(this.timerInterval) removes the timer the field names
stopTimer(c) ==
    IF c.timerInterval
    THEN [c EXCEPT !.timerInterval = FALSE, !.intervals = @ - 1]
    ELSE c

pauseTimer(c) == c

resumeTimer(c) == c

resetTimer(c) ==
    IF IsNull(c.state) THEN c ELSE [c EXCEPT !.state.timeRemaining = TIMER_DURATION]

\* ------------------------------------------------------ lifecycle methods
\* resumeGame without its isGameOver guard
resumeGame_ignoringGameOver(c) ==
    IF IsNull(c.state) THEN c
    ELSE LET c1 == [c EXCEPT !.state.isPaused = FALSE]
             c2 == startTimer(c1)
         IN emitEvent(c2, [type |-> "gameResumed", player |-> c2.state.currentPlayerIndex])

resumeGame(c) ==
    IF IsNull(c.state) \/ c.state.isGameOver THEN c
    ELSE LET c1 == [c EXCEPT !.state.isPaused = FALSE]
             c2 == startTimer(c1)
         IN emitEvent(c2, [type |-> "gameResumed", player |-> c2.state.currentPlayerIndex])

\* pauseGame announcing the pause without setting isPaused or stopping the
\* interval
pauseGame_leavingTimerRunning(c) ==
    IF IsNull(c.state) \/ c.state.isGameOver THEN c
    ELSE emitEvent(c, [type |-> "gamePaused", reason |-> "manual"])

pauseGame(c) ==
    IF IsNull(c.state) \/ c.state.isGameOver THEN c
    ELSE LET c1 == [c EXCEPT !.state.isPaused = TRUE]
             c2 == stopTimer(c1)
         IN emitEvent(c2, [type |-> "gamePaused", reason |-> "manual"])

\* startGame throwing only when there is no state
startGameThrows_onlyWhenUninitialized(c) == IsNull(c.state)

\* startGame throws when uninitialized or over; Throws* tell the action so
startGameThrows(c) == IsNull(c.state) \/ c.state.isGameOver

startGame(c) ==
    LET c1 == [c EXCEPT !.state.isPaused = FALSE]
        c2 == startTimer(c1)
    IN emitEvent(c2, [type |-> "gameResumed", player |-> c2.state.currentPlayerIndex])

\* App.onTurnEnded, the application's listener for turnSwitch: a single
\* player game is resumed at once, a multiplayer game after a prompt
\* (a later ResumeGame task).  The listener asks and resumes
\* this.gameController: for an event of a controller the application has
\* replaced that is another controller, and the task applies the listener
\* to it (PreviousTimerTick, PreviousComparisonFire).
onTurnEnded(c) ==
    IF ~c.attached THEN c
    ELSE IF IsNull(c.state) THEN c
    ELSE IF Cardinality(PlayerIdx(c.state)) > 1 THEN c
    ELSE resumeGame(c)

\* ------------------------------------------------------------ turn logic
\* switchPlayer advancing currentPlayerIndex without updating isActive
switchPlayer_keepingActiveFlags(c) ==
    IF IsNull(c.state) THEN c
    ELSE LET fromPlayer == c.state.currentPlayerIndex
             n == Cardinality(PlayerIdx(c.state))
             next == (fromPlayer + 1) % n
             c1 == [c EXCEPT !.state.currentPlayerIndex = next]
             c2 == resetTimer(c1)
             c3 == stopTimer([c2 EXCEPT !.state.isPaused = TRUE])
             c4 == onTurnEnded(emitEvent(c3,
                       [type |-> "turnSwitch", fromPlayer |-> fromPlayer, toPlayer |-> next]))
         IN emitEvent(c4, [type |-> "gamePaused", reason |-> "turn_switch"])

\* switchPlayer without its resetTimer call
switchPlayer_keepingTimeRemaining(c) ==
    IF IsNull(c.state) THEN c
    ELSE LET fromPlayer == c.state.currentPlayerIndex
             n == Cardinality(PlayerIdx(c.state))
             next == (fromPlayer + 1) % n
             c1 == [c EXCEPT !.state.currentPlayerIndex = next,
                             !.state.players =
                                 [i \in PlayerIdx(c.state) |->
                                     [c.state.players[i] EXCEPT !.isActive = (i = next)]]]
             c3 == stopTimer([c1 EXCEPT !.state.isPaused = TRUE])
             c4 == onTurnEnded(emitEvent(c3,
                       [type |-> "turnSwitch", fromPlayer |-> fromPlayer, toPlayer |-> next]))
         IN emitEvent(c4, [type |-> "gamePaused", reason |-> "turn_switch"])

switchPlayer(c) ==
    IF IsNull(c.state) THEN c
    ELSE LET fromPlayer == c.state.currentPlayerIndex
             n == Cardinality(PlayerIdx(c.state))
             next == (fromPlayer + 1) % n
             c1 == [c EXCEPT !.state.currentPlayerIndex = next,
                             !.state.players =
                                 [i \in PlayerIdx(c.state) |->
                                     [c.state.players[i] EXCEPT !.isActive = (i = next)]]]
             c2 == resetTimer(c1)
             c3 == stopTimer([c2 EXCEPT !.state.isPaused = TRUE])
             c4 == onTurnEnded(emitEvent(c3,
                       [type |-> "turnSwitch", fromPlayer |-> fromPlayer, toPlayer |-> next]))
         IN emitEvent(c4, [type |-> "gamePaused", reason |-> "turn_switch"])

\* onTimerExpired emptying the revealed set without turning its cards back
onTimerExpired_keepingCardsFaceUp(c) ==
    IF IsNull(c.state) THEN c
    ELSE LET c1 == emitEvent(c, [type |-> "timerExpired", player |-> c.state.currentPlayerIndex])
         IN switchPlayer([c1 EXCEPT !.state.revealedCards = <<>>])

onTimerExpired(c) ==
    IF IsNull(c.state) THEN c
    ELSE LET c1 == emitEvent(c, [type |-> "timerExpired", player |-> c.state.currentPlayerIndex])
             revealed == {c1.state.revealedCards[k] : k \in DOMAIN c1.state.revealedCards}
             c2 == [c1 EXCEPT !.state.cards =
                        [id \in DOMAIN c1.state.cards |->
                            IF id \in revealed /\ ~c1.state.cards[id].isMatched
                            THEN [c1.state.cards[id] EXCEPT !.isFlipped = FALSE]
                            ELSE c1.state.cards[id]],
                              !.state.revealedCards = <<>>]
         IN switchPlayer(c2)

\* ---------------------------------------------------------------- scoring
\* Math.floor in place of Math.round
calculatePlayerScore_truncating(matches, totalFlips) ==
    IF totalFlips = 0 THEN 0
    ELSE (1000 * matches) \div totalFlips

\* Math.round((matches / totalFlips) * 1000), halves rounded up
calculatePlayerScore(matches, totalFlips) ==
    IF totalFlips = 0 THEN 0
    ELSE (2000 * matches + totalFlips) \div (2 * totalFlips)

\* validateRequest of the submit-score endpoint on the numbers of a
\* request (playerId, playerName and difficulty are strings the
\* application fills in from its configuration):
\* req.matches > req.totalFlips / 2 is 2 * matches > totalFlips
validateRequest(req) ==
    /\ req.score >= 0
    /\ req.totalFlips >= 0
    /\ req.matches >= 0
    /\ ~(2 * req.matches > req.totalFlips)

\* incrementPlayerMatches crediting every player instead of the current one
incrementPlayerMatches_everyPlayer(c) ==
    IF IsNull(c.state) THEN c
    ELSE [c EXCEPT !.state.players =
            [i \in PlayerIdx(c.state) |->
                [c.state.players[i] EXCEPT
                    !.matches = @ + 1,
                    !.score = calculatePlayerScore(c.state.players[i].matches + 1,
                                                   c.state.players[i].totalFlips)]]]

\* incrementPlayerMatches without the recalculation of the score
incrementPlayerMatches_keepingScore(c) ==
    IF IsNull(c.state) THEN c
    ELSE LET i == c.state.currentPlayerIndex
         IN [c EXCEPT !.state.players[i].matches = @ + 1]

incrementPlayerMatches(c) ==
    IF IsNull(c.state) THEN c
    ELSE LET i == c.state.currentPlayerIndex
             p == c.state.players[i]
             m == p.matches + 1
         IN [c EXCEPT !.state.players[i] =
                [p EXCEPT !.matches = m, !.score = calculatePlayerScore(m, p.totalFlips)]]

recalculateAllScores(c) ==
    IF IsNull(c.state) THEN c
    ELSE [c EXCEPT !.state.players =
            [i \in PlayerIdx(c.state) |->
                [c.state.players[i] EXCEPT
                    !.score = calculatePlayerScore(c.state.players[i].matches,
                                                   c.state.players[i].totalFlips)]]]

\* checkWinCondition satisfied by one matched card
checkWinCondition_anyMatched(c) ==
    IF IsNull(c.state) THEN FALSE
    ELSE \E id \in DOMAIN c.state.cards : c.state.cards[id].isMatched

\* --------------------------------------------------------------- game end
checkWinCondition(c) ==
    IF IsNull(c.state) THEN FALSE
    ELSE \A id \in DOMAIN c.state.cards : c.state.cards[id].isMatched

\* [...players].sort((a, b) => b.score - a.score): stable, highest first
RECURSIVE insertByScore(_, _, _)
insertByScore(players, sorted, p) ==
    IF sorted = <<>> THEN <<p>>
    ELSE IF players[Head(sorted)].score >= players[p].score
         THEN <<Head(sorted)>> \o insertByScore(players, Tail(sorted), p)
         ELSE <<p>> \o sorted

RECURSIVE sortByScore(_, _)
sortByScore(players, k) ==
    IF k = 0 THEN <<>>
    ELSE insertByScore(players, sortByScore(players, k - 1), k - 1)

\* endGame naming the head of the sorted list the winner even when other
\* players have the same score
endGame_firstAsWinner(c) ==
    IF IsNull(c.state) THEN c
    ELSE LET c1 == stopTimer(c)
             c2 == recalculateAllScores([c1 EXCEPT !.state.isGameOver = TRUE,
                                                   !.state.isPaused = TRUE])
             ps == c2.state.players
             finalScores == sortByScore(ps, Cardinality(DOMAIN ps))
             winners == <<finalScores[1]>>
             c3 == [c2 EXCEPT !.state.winner = winners[1]]
         IN emitEvent(c3, [type |-> "gameOver", winners |-> winners,
                           finalScores |-> finalScores])

endGame(c) ==
    IF IsNull(c.state) THEN c
    ELSE LET c1 == stopTimer(c)
             c2 == recalculateAllScores([c1 EXCEPT !.state.isGameOver = TRUE,
                                                   !.state.isPaused = TRUE])
             ps == c2.state.players
             finalScores == sortByScore(ps, Cardinality(DOMAIN ps))
             highestScore == ps[finalScores[1]].score
             winners == SelectSeq(finalScores, LAMBDA p : ps[p].score = highestScore)
             c3 == [c2 EXCEPT !.state.winner =
                        IF Len(winners) = 1 THEN winners[1] ELSE NoPlayer]
         IN emitEvent(c3, [type |-> "gameOver", winners |-> winners,
                           finalScores |-> finalScores])

\* ------------------------------------------------------------- comparison
\* the closure passed to window.setTimeout in compareCards: it keeps the two
\* card objects and the player that was current when it was created
\* (stale: the card objects belong to a GameState that has been replaced)
\* compareCards leaving the two cards in revealedCards until its callback
compareCards_keepingRevealed(c) ==
    IF IsNull(c.state) \/ Len(c.state.revealedCards) # 2 THEN c
    ELSE LET first == c.state.revealedCards[1]
             second == c.state.revealedCards[2]
             closure == [first |-> [id |-> first, pokemonId |-> c.state.cards[first].pokemonId],
                         second |-> [id |-> second, pokemonId |-> c.state.cards[second].pokemonId],
                         currentPlayer |-> c.state.currentPlayerIndex,
                         stale |-> FALSE]
         IN [c EXCEPT !.timeouts = Append(@, closure), !.comparisonTimeout = "pending"]

compareCards(c) ==
    IF IsNull(c.state) \/ Len(c.state.revealedCards) # 2 THEN c
    ELSE LET first == c.state.revealedCards[1]
             second == c.state.revealedCards[2]
             closure == [first |-> [id |-> first, pokemonId |-> c.state.cards[first].pokemonId],
                         second |-> [id |-> second, pokemonId |-> c.state.cards[second].pokemonId],
                         currentPlayer |-> c.state.currentPlayerIndex,
                         stale |-> FALSE]
             c1 == pauseTimer([c EXCEPT !.state.revealedCards = <<>>])
         IN [c1 EXCEPT !.timeouts = Append(@, closure), !.comparisonTimeout = "pending"]

\* the callback writing the field on every card of the deck instead of on
\* its own two cards
setCards_everyCard(c, t, field, value) ==
    IF t.stale THEN c
    ELSE [c EXCEPT !.state.cards =
            [id \in DOMAIN c.state.cards |-> [c.state.cards[id] EXCEPT ![field] = value]]]

\* writes to the closure's card objects reach this.state.cards only while
\* those objects are still the cards of the installed GameState
setCards(c, t, field, value) ==
    IF t.stale THEN c
    ELSE [c EXCEPT !.state.cards =
            [id \in DOMAIN c.state.cards |->
                IF id \in {t.first.id, t.second.id}
                THEN [c.state.cards[id] EXCEPT ![field] = value]
                ELSE c.state.cards[id]]]

\* the callback leaving the two cards of a mismatch face-up
comparisonCallback_keepingMismatchFaceUp(c, t) ==
    IF IsNull(c.state) THEN c
    ELSE LET pair == <<t.first.id, t.second.id>>
             done ==
                IF t.first.pokemonId = t.second.pokemonId
                THEN LET c1 == setCards(c, t, "isMatched", TRUE)
                         c2 == incrementPlayerMatches(c1)
                         c3 == emitEvent(c2, [type |-> "match", cards |-> pair,
                                              player |-> t.currentPlayer])
                         c4 == resumeTimer(resetTimer(c3))
                     IN IF checkWinCondition(c4) THEN endGame(c4) ELSE c4
                ELSE LET c2 == emitEvent(c, [type |-> "mismatch", cards |-> pair,
                                             player |-> t.currentPlayer])
                     IN switchPlayer(c2)
         IN [done EXCEPT !.comparisonTimeout = "null"]

\* the callback without the win check of its match branch
comparisonCallback_withoutWinCheck(c, t) ==
    IF IsNull(c.state) THEN c
    ELSE LET pair == <<t.first.id, t.second.id>>
             done ==
                IF t.first.pokemonId = t.second.pokemonId
                THEN LET c1 == setCards(c, t, "isMatched", TRUE)
                         c2 == incrementPlayerMatches(c1)
                         c3 == emitEvent(c2, [type |-> "match", cards |-> pair,
                                              player |-> t.currentPlayer])
                     IN resumeTimer(resetTimer(c3))
                ELSE LET c1 == setCards(c, t, "isFlipped", FALSE)
                         c2 == emitEvent(c1, [type |-> "mismatch", cards |-> pair,
                                              player |-> t.currentPlayer])
                     IN switchPlayer(c2)
         IN [done EXCEPT !.comparisonTimeout = "null"]

\* body of the setTimeout callback
comparisonCallback(c, t) ==
    IF IsNull(c.state) THEN c
    ELSE LET pair == <<t.first.id, t.second.id>>
             done ==
                IF t.first.pokemonId = t.second.pokemonId
                THEN LET c1 == setCards(c, t, "isMatched", TRUE)
                         c2 == incrementPlayerMatches(c1)
                         c3 == emitEvent(c2, [type |-> "match", cards |-> pair,
                                              player |-> t.currentPlayer])
                         c4 == resumeTimer(resetTimer(c3))
                     IN IF checkWinCondition(c4) THEN endGame(c4) ELSE c4
                ELSE LET c1 == setCards(c, t, "isFlipped", FALSE)
                         c2 == emitEvent(c1, [type |-> "mismatch", cards |-> pair,
                                              player |-> t.currentPlayer])
                     IN switchPlayer(c2)
         IN [done EXCEPT !.comparisonTimeout = "null"]

\* the interval callback expiring the turn below 0 instead of at 0
timerCallback_expiringBelowZero(c) ==
    IF IsNull(c.state) \/ c.state.isPaused THEN c
    ELSE LET c1 == [c EXCEPT !.state.timeRemaining = @ - 1]
             c2 == emitEvent(c1, [type |-> "timerTick", timeRemaining |-> c1.state.timeRemaining])
         IN IF c2.state.timeRemaining < 0 THEN onTimerExpired(c2) ELSE c2

\* the interval callback without its isPaused guard
timerCallback_ignoringIsPaused(c) ==
    IF IsNull(c.state) THEN c
    ELSE LET c1 == [c EXCEPT !.state.timeRemaining = @ - 1]
             c2 == emitEvent(c1, [type |-> "timerTick", timeRemaining |-> c1.state.timeRemaining])
         IN IF c2.state.timeRemaining <= 0 THEN onTimerExpired(c2) ELSE c2

\* body of the setInterval callback
timerCallback(c) ==
    IF IsNull(c.state) \/ c.state.isPaused THEN c
    ELSE LET c1 == [c EXCEPT !.state.timeRemaining = @ - 1]
             c2 == emitEvent(c1, [type |-> "timerTick", timeRemaining |-> c1.state.timeRemaining])
         IN IF c2.state.timeRemaining <= 0 THEN onTimerExpired(c2) ELSE c2

\* one period of the interval elapses: its callback runs if the interval
\* has not been cleared
intervalElapses(c) == IF c.intervals > 0 THEN timerCallback(c) ELSE c

RECURSIVE intervalsElapse(_, _)
intervalsElapse(c, k) ==
    IF k = 0 THEN c ELSE intervalElapses(intervalsElapse(c, k - 1))

\* --------------------------------------------------------------- flipCard
\* flipCard checking only isMatched, not isFlipped
flipCardResult_ignoringIsFlipped(c, cardId) ==
    IF IsNull(c.state) THEN "throw"
    ELSE IF c.state.isPaused THEN "INVALID"
    ELSE IF c.state.isGameOver THEN "GAME_OVER"
    ELSE IF cardId \notin DOMAIN c.state.cards THEN "INVALID"
    ELSE IF c.state.cards[cardId].isMatched THEN "INVALID"
    ELSE IF Len(c.state.revealedCards) >= 2 THEN "INVALID"
    ELSE "FIRST_CARD"

\* flipCard without the isPaused check
flipCardResult_ignoringIsPaused(c, cardId) ==
    IF IsNull(c.state) THEN "throw"
    ELSE IF c.state.isGameOver THEN "GAME_OVER"
    ELSE IF cardId \notin DOMAIN c.state.cards THEN "INVALID"
    ELSE IF c.state.cards[cardId].isMatched \/ c.state.cards[cardId].isFlipped THEN "INVALID"
    ELSE IF Len(c.state.revealedCards) >= 2 THEN "INVALID"
    ELSE "FIRST_CARD"

\* flipCard returning INVALID instead of throwing when there is no state
flipCardResult_invalidWhenNull(c, cardId) ==
    IF IsNull(c.state) THEN "INVALID"
    ELSE IF c.state.isPaused THEN "INVALID"
    ELSE IF c.state.isGameOver THEN "GAME_OVER"
    ELSE IF cardId \notin DOMAIN c.state.cards THEN "INVALID"
    ELSE IF c.state.cards[cardId].isMatched \/ c.state.cards[cardId].isFlipped THEN "INVALID"
    ELSE IF Len(c.state.revealedCards) >= 2 THEN "INVALID"
    ELSE "FIRST_CARD"

\* flipCard reporting the outcome of the comparison for the second card
flipCardResult_reportingOutcome(c, cardId) ==
    IF IsNull(c.state) THEN "throw"
    ELSE IF c.state.isPaused THEN "INVALID"
    ELSE IF c.state.isGameOver THEN "GAME_OVER"
    ELSE IF cardId \notin DOMAIN c.state.cards THEN "INVALID"
    ELSE IF c.state.cards[cardId].isMatched \/ c.state.cards[cardId].isFlipped THEN "INVALID"
    ELSE IF Len(c.state.revealedCards) >= 2 THEN "INVALID"
    ELSE IF Len(c.state.revealedCards) = 0 THEN "FIRST_CARD"
    ELSE IF c.state.cards[c.state.revealedCards[1]].pokemonId = c.state.cards[cardId].pokemonId
         THEN "MATCH"
         ELSE "MISMATCH"

\* the value flipCard returns ("throw": it throws 'Game not initialized')
flipCardResult(c, cardId) ==
    IF IsNull(c.state) THEN "throw"
    ELSE IF c.state.isPaused THEN "INVALID"
    ELSE IF c.state.isGameOver THEN "GAME_OVER"
    ELSE IF cardId \notin DOMAIN c.state.cards THEN "INVALID"
    ELSE IF c.state.cards[cardId].isMatched \/ c.state.cards[cardId].isFlipped THEN "INVALID"
    ELSE IF Len(c.state.revealedCards) >= 2 THEN "INVALID"
    ELSE "FIRST_CARD"

\* flipCard counting the flip for every player
flipCard_countingEveryPlayer(c, cardId) ==
    IF flipCardResult(c, cardId) # "FIRST_CARD" THEN c
    ELSE LET i == c.state.currentPlayerIndex
             c1 == [c EXCEPT !.state.cards[cardId].isFlipped = TRUE,
                             !.state.revealedCards = Append(@, cardId)]
             c2 == [c1 EXCEPT !.state.players =
                        [p \in PlayerIdx(c.state) |->
                            [c.state.players[p] EXCEPT !.totalFlips = @ + 1]]]
             c3 == emitEvent(c2, [type |-> "cardFlipped", card |-> cardId, player |-> i])
         IN IF Len(c3.state.revealedCards) = 1 THEN c3 ELSE compareCards(c3)

flipCard(c, cardId) ==
    IF flipCardResult(c, cardId) # "FIRST_CARD" THEN c
    ELSE LET i == c.state.currentPlayerIndex
             c1 == [c EXCEPT !.state.cards[cardId].isFlipped = TRUE,
                             !.state.revealedCards = Append(@, cardId)]
             c2 == [c1 EXCEPT !.state.players[i].totalFlips = @ + 1]
             c3 == emitEvent(c2, [type |-> "cardFlipped", card |-> cardId, player |-> i])
         IN IF Len(c3.state.revealedCards) = 1 THEN c3 ELSE compareCards(c3)

\* ---------------------------------------------------------------- getters
\* A value handed out is described by what it is made of: `own` are the
\* fields of this.state whose values the receiver holds in an object of its
\* own, `shared` are the fields of this.state that the receiver reaches as
\* the very objects the controller uses.

\* { ...this.state }: a new object; the numbers and booleans are copied
\* into it, the cards, players and revealedCards it holds are the arrays of
\* this.state themselves, with the Card and Player objects in them
getGameState(c) ==
    IF IsNull(c.state) THEN [own |-> {}, shared |-> {}]
    ELSE [own |-> {"currentPlayerIndex", "timeRemaining", "isPaused", "isGameOver"},
          shared |-> {"cards", "players", "revealedCards", "winner"}]

\* this.state.players[this.state.currentPlayerIndex]: the Player object of
\* this.state
getCurrentPlayer(c) ==
    [own |-> {}, shared |-> {"players"}]

\* the detail of stateChange, { state: this.state }: the GameState object
\* itself, so every field is reached in place
stateChangeDetail(c) ==
    [own |-> {},
     shared |-> {"currentPlayerIndex", "timeRemaining", "isPaused", "isGameOver",
                 "cards", "players", "revealedCards", "winner"}]

\* the receiver of `value` assigns through it: value.isPaused = b,
\* value.cards[key].isMatched = b, value.players[key].totalFlips = 0 (for
\* getCurrentPlayer, value.totalFlips = 0 with key the current index).
\* The assignment lands in this.state when the field is shared and in the
\* receiver's own object otherwise.
assignThrough(c, value, field, key, b) ==
    IF field \notin value.shared THEN c
    ELSE IF field = "isPaused" THEN [c EXCEPT !.state.isPaused = b]
    ELSE IF field = "cards" THEN [c EXCEPT !.state.cards[key].isMatched = b]
    ELSE IF field = "players" THEN [c EXCEPT !.state.players[key].totalFlips = 0]
    ELSE c

\* ---------------------------------------------------------------- destroy
\* clearTimeout(this.comparisonTimeout) removes the one timeout the field
\* names; the field itself is left as it was
destroy(c) ==
    LET c1 == stopTimer(c)
        c2 == IF c1.comparisonTimeout = "pending"
              THEN [c1 EXCEPT !.timeouts = SubSeq(@, 1, Len(@) - 1),
                              !.comparisonTimeout = "cleared"]
              ELSE c1
    IN [c2 EXCEPT !.state = Null]

\* --------------------------------------------------------------- initGame
\* initGame validating the player list with only its upper limit
initGameThrows_allowingNoPlayers(n) == n > MAX_PLAYERS_ALLOWED

\* the validation of initGame: it throws 'Game requires 1-4 players'
initGameThrows(n) == n < 1 \/ n > MAX_PLAYERS_ALLOWED

\* initGame installing its GameState before it awaits the deck
initGame_installingBeforeAwait(c, n, rejected, cards) ==
    LET c1 == [c EXCEPT !.requested = TRUE]
        c2 == [c1 EXCEPT !.state = NewGameState(n, cards),
                         !.timeouts = [k \in DOMAIN @ |-> [@[k] EXCEPT !.stale = TRUE]]]
    IN IF rejected THEN c2 ELSE emitEvent(c2, [type |-> "stateChange"])

\* initGame past its validation, with n = config.players.length.
\* rejected: the promise of generateCards rejects (the provider threw), and
\* so does initGame at its await.  Otherwise generateCards resolves with
\* cards and the new GameState replaces the old one, whose card objects the
\* pending closures keep.
initGame(c, n, rejected, cards) ==
    LET c1 == [c EXCEPT !.requested = TRUE]
    IN IF rejected THEN c1
       ELSE LET c2 == [c1 EXCEPT !.state = NewGameState(n, cards),
                                 !.timeouts = [k \in DOMAIN @ |-> [@[k] EXCEPT !.stale = TRUE]]]
            IN emitEvent(c2, [type |-> "stateChange"])

\* ------------------------------------------------------------------- Init
\* no initGame call is being followed
NoTask ==
    [pc |-> "none", n |-> 0, provided |-> <<>>, rejects |-> FALSE,
     pokemon |-> <<>>, cards |-> <<>>, shuffled |-> <<>>, i |-> 0]

\* no calculatePlayerScore call is being followed
NoCall == [pc |-> "none", matches |-> 0, totalFlips |-> 0, score |-> 0]

Init ==
    /\ state = Null
    /\ timerInterval = FALSE
    /\ intervals = 0
    /\ comparisonTimeout = "null"
    /\ timeouts = <<>>
    /\ games = 0
    /\ flips = 0
    /\ emitted = <<>>
    /\ requested = FALSE
    /\ result = "none"
    /\ op = [name |-> "new", arg |-> 0]
    /\ initTask = NoTask
    /\ scoreCall = NoCall
    /\ writes = 0
    /\ previous = <<>>

\* ---------------------------------------------------------------- actions
\* initGame(config) with n = config.players.length.  Before its await the
\* method only reads its argument, so the whole call is the one task in
\* which generateCards resolves and the new GameState is installed.
InitGame(n) ==
    /\ games < MaxGames
    /\ op' = [name |-> "initGame", arg |-> n]
    /\ IF initGameThrows(n)
       THEN /\ Commit(Ctx, "throw")
            /\ UNCHANGED <<games, flips, initTask, scoreCall, writes, previous>>
       ELSE /\ Commit(initGame(Ctx, n, FALSE, generateCards(NumPairs)), "void")
            /\ games' = games + 1
            /\ UNCHANGED <<flips, initTask, scoreCall, writes, previous>>

\* initGame whose generateCards rejects (pokemonService.getRandomPokemon threw)
InitGameFail(n) ==
    /\ games < MaxGames
    /\ ~initGameThrows(n)
    /\ op' = [name |-> "initGameFail", arg |-> n]
    /\ Commit(initGame(Ctx, n, TRUE, <<>>), "throw")
    /\ UNCHANGED <<games, flips, initTask, scoreCall, writes, previous>>

StartGame ==
    /\ op' = [name |-> "startGame", arg |-> 0]
    /\ IF startGameThrows(Ctx) THEN Commit(Ctx, "throw") ELSE Commit(startGame(Ctx), "void")
    /\ UNCHANGED <<games, flips, initTask, scoreCall, writes, previous>>

PauseGame ==
    /\ op' = [name |-> "pauseGame", arg |-> 0]
    /\ Commit(pauseGame(Ctx), "void")
    /\ UNCHANGED <<games, flips, initTask, scoreCall, writes, previous>>

ResumeGame ==
    /\ op' = [name |-> "resumeGame", arg |-> 0]
    /\ Commit(resumeGame(Ctx), "void")
    /\ UNCHANGED <<games, flips, initTask, scoreCall, writes, previous>>

FlipCard(cardId) ==
    /\ flipCardResult(Ctx, cardId) = "FIRST_CARD" => flips < MaxFlips
    /\ op' = [name |-> "flipCard", arg |-> cardId]
    /\ Commit(flipCard(Ctx, cardId), flipCardResult(Ctx, cardId))
    /\ flips' = IF flipCardResult(Ctx, cardId) = "FIRST_CARD" THEN flips + 1 ELSE flips
    /\ UNCHANGED <<games, initTask, scoreCall, writes, previous>>

Destroy ==
    /\ op' = [name |-> "destroy", arg |-> 0]
    /\ Commit(destroy(Ctx), "void")
    /\ UNCHANGED <<games, flips, initTask, scoreCall, writes, previous>>

\* one firing of the interval started by startTimer
TimerTick ==
    /\ intervals > 0
    /\ op' = [name |-> "timerTick", arg |-> 0]
    /\ Commit(timerCallback(Ctx), "none")
    /\ UNCHANGED <<games, flips, initTask, scoreCall, writes, previous>>

\* the oldest pending timeout fires (all have the same delay, so they fire
\* in the order in which they were set)
ComparisonFire ==
    /\ timeouts # <<>>
    /\ op' = [name |-> "comparison", arg |-> Head(timeouts)]
    /\ Commit(comparisonCallback([Ctx EXCEPT !.timeouts = Tail(@)], Head(timeouts)), "none")
    /\ UNCHANGED <<games, flips, initTask, scoreCall, writes, previous>>

Next ==
    \/ \E n \in (0 .. MaxPlayers) \cup {MAX_PLAYERS_ALLOWED + 1} : InitGame(n)
    \/ \E n \in 1 .. MaxPlayers : InitGameFail(n)
    \/ StartGame
    \/ PauseGame
    \/ ResumeGame
    \/ \E cardId \in 0 .. NumCards : FlipCard(cardId)
    \/ Destroy
    \/ TimerTick
    \/ ComparisonFire

Spec == Init /\ [][Next]_vars

\* ---------------------------------------------------------------- DeckSpec
\* One initGame call on a new controller, followed through generateCards
\* and shuffleArray.  Its inputs are the player count, and what the
\* provider does: it rejects, or it holds a list of `provided` distinct
\* Pokemon in the order its own shuffle left them.

Injective(f) == \A a, b \in DOMAIN f : f[a] = f[b] => a = b

ProvidedLists ==
    UNION {{f \in [0 .. (k - 1) -> 1 .. k] : Injective(f)} : k \in 0 .. (NumPairs + 1)}

DeckInit ==
    /\ state = Null
    /\ timerInterval = FALSE
    /\ intervals = 0
    /\ comparisonTimeout = "null"
    /\ timeouts = <<>>
    /\ games = 0
    /\ flips = 0
    /\ emitted = <<>>
    /\ requested = FALSE
    /\ result = "none"
    /\ op = [name |-> "new", arg |-> 0]
    /\ \E n \in 1 .. MaxPlayers, provided \in ProvidedLists, rejects \in BOOLEAN :
          /\ rejects => provided = <<>>
          /\ initTask = [NoTask EXCEPT !.pc = "called", !.n = n,
                                       !.provided = provided, !.rejects = rejects]
    /\ scoreCall = NoCall
    /\ writes = 0
    /\ previous = <<>>

controllerVars ==
    <<state, timerInterval, intervals, comparisonTimeout, timeouts, games, flips,
      emitted, requested, result, op>>

\* await pokemonService.getRandomPokemon(generation, uniqueCount) resolves
GetRandomPokemonResolves ==
    /\ initTask.pc = "called"
    /\ ~initTask.rejects
    /\ initTask' = [initTask EXCEPT !.pc = "fetched",
                                    !.pokemon = getRandomPokemon(initTask.provided, NumPairs)]
    /\ UNCHANGED controllerVars
    /\ UNCHANGED <<scoreCall, writes, previous>>

\* the provider throws: generateCards rejects and initGame with it
GetRandomPokemonRejects ==
    /\ initTask.pc = "called"
    /\ initTask.rejects
    /\ initTask' = [initTask EXCEPT !.pc = "thrown"]
    /\ op' = [name |-> "initGameFail", arg |-> initTask.n]
    /\ Commit(initGame(Ctx, initTask.n, TRUE, <<>>), "throw")
    /\ UNCHANGED <<games, flips, scoreCall, writes, previous>>

\* the pairs are created and shuffleArray copies them: shuffled = [...array]
CreatePairs ==
    /\ initTask.pc = "fetched"
    /\ initTask' = [initTask EXCEPT !.pc = "shuffling",
                                    !.cards = createPairs(initTask.pokemon),
                                    !.shuffled = createPairs(initTask.pokemon),
                                    !.i = Length(createPairs(initTask.pokemon)) - 1]
    /\ UNCHANGED controllerVars
    /\ UNCHANGED <<scoreCall, writes, previous>>

\* one round of the loop of shuffleArray, j = Math.floor(Math.random() * (i + 1))
ShuffleStep ==
    /\ initTask.pc = "shuffling"
    /\ initTask.i > 0
    /\ \E j \in 0 .. initTask.i :
          initTask' = [initTask EXCEPT !.shuffled = swap(initTask.shuffled, initTask.i, j),
                                       !.i = initTask.i - 1]
    /\ UNCHANGED controllerVars
    /\ UNCHANGED <<scoreCall, writes, previous>>

\* the loop is over: generateCards resolves with shuffled and initGame
\* installs the GameState
InstallState ==
    /\ initTask.pc = "shuffling"
    /\ ~(initTask.i > 0)
    /\ initTask' = [initTask EXCEPT !.pc = "installed"]
    /\ op' = [name |-> "initGame", arg |-> initTask.n]
    /\ Commit(initGame(Ctx, initTask.n, FALSE, cardsById(initTask.shuffled)), "void")
    /\ games' = games + 1
    /\ UNCHANGED <<flips, scoreCall, writes, previous>>

DeckNext ==
    \/ GetRandomPokemonResolves
    \/ GetRandomPokemonRejects
    \/ CreatePairs
    \/ ShuffleStep
    \/ InstallState

DeckSpec == DeckInit /\ [][DeckNext]_vars

\* --------------------------------------------------------------- ScoreSpec
\* One call of calculatePlayerScore(matches, totalFlips) on a new
\* controller, for every pair of counters up to MaxCount.

ScoreInit ==
    /\ state = Null
    /\ timerInterval = FALSE
    /\ intervals = 0
    /\ comparisonTimeout = "null"
    /\ timeouts = <<>>
    /\ games = 0
    /\ flips = 0
    /\ emitted = <<>>
    /\ requested = FALSE
    /\ result = "none"
    /\ op = [name |-> "new", arg |-> 0]
    /\ initTask = NoTask
    /\ \E matches \in 0 .. MaxCount, totalFlips \in 0 .. MaxCount :
          scoreCall = [pc |-> "called", matches |-> matches,
                       totalFlips |-> totalFlips, score |-> 0]
    /\ writes = 0
    /\ previous = <<>>

\* the call returns
CalculatePlayerScore ==
    /\ scoreCall.pc = "called"
    /\ scoreCall' = [scoreCall EXCEPT
                        !.pc = "returned",
                        !.score = calculatePlayerScore(scoreCall.matches,
                                                       scoreCall.totalFlips)]
    /\ UNCHANGED controllerVars
    /\ UNCHANGED <<initTask, writes, previous>>

ScoreNext == CalculatePlayerScore

ScoreSpec == ScoreInit /\ [][ScoreNext]_vars

\* -------------------------------------------------------------- CallerSpec
\* Games that are started and played without a pause and faster than the
\* first tick of the timer, with a caller that, up to MaxWrites times,
\* assigns to a value the controller handed it.

\* const s = controller.getGameState(); s.isPaused = b
WriteSnapshotField(b) ==
    /\ writes < MaxWrites
    /\ ~IsNull(state)
    /\ writes' = writes + 1
    /\ op' = [name |-> "writeSnapshotField", arg |-> 0]
    /\ Commit(assignThrough(Ctx, getGameState(Ctx), "isPaused", 0, b), "none")
    /\ UNCHANGED <<games, flips, initTask, scoreCall, previous>>

\* controller.getGameState().cards[cardId].isMatched = true
WriteSnapshotCard(cardId) ==
    /\ writes < MaxWrites
    /\ ~IsNull(state)
    /\ cardId \in DOMAIN state.cards
    /\ writes' = writes + 1
    /\ op' = [name |-> "writeSnapshotCard", arg |-> cardId]
    /\ Commit(assignThrough(Ctx, getGameState(Ctx), "cards", cardId, TRUE), "none")
    /\ UNCHANGED <<games, flips, initTask, scoreCall, previous>>

\* controller.getCurrentPlayer().totalFlips = 0
WriteCurrentPlayer ==
    /\ writes < MaxWrites
    /\ ~IsNull(state)
    /\ writes' = writes + 1
    /\ op' = [name |-> "writeCurrentPlayer", arg |-> 0]
    /\ Commit(assignThrough(Ctx, getCurrentPlayer(Ctx), "players",
                            state.currentPlayerIndex, FALSE), "none")
    /\ UNCHANGED <<games, flips, initTask, scoreCall, previous>>

\* the stateChange listener kept event.detail.state of the installed game:
\* detail.state.isPaused = b
WriteStateChangeDetail(b) ==
    /\ writes < MaxWrites
    /\ ~IsNull(state)
    /\ writes' = writes + 1
    /\ op' = [name |-> "writeStateChangeDetail", arg |-> 0]
    /\ Commit(assignThrough(Ctx, stateChangeDetail(Ctx), "isPaused", 0, b), "none")
    /\ UNCHANGED <<games, flips, initTask, scoreCall, previous>>

CallerNext ==
    \/ \E n \in 1 .. MaxPlayers : InitGame(n)
    \/ StartGame
    \/ \E cardId \in 0 .. (NumCards - 1) : FlipCard(cardId)
    \/ ComparisonFire
    \/ \E b \in BOOLEAN : WriteSnapshotField(b)
    \/ \E cardId \in 0 .. (NumCards - 1) : WriteSnapshotCard(cardId)
    \/ WriteCurrentPlayer
    \/ \E b \in BOOLEAN : WriteStateChangeDetail(b)

CallerSpec == Init /\ [][CallerNext]_vars

\* ----------------------------------------------------------------- AppSpec
\* The application and its controllers.  state, timerInterval,
\* comparisonTimeout and timeouts are those of this.gameController (state is
\* Null while the application holds no controller); `previous` holds the
\* controllers it held before, whose intervals, timeouts and listeners
\* nothing has removed.  The application never calls pauseGame or destroy.

\* a replaced controller, at the start of one of its callbacks
PreviousCtx(k) ==
    [state |-> previous[k].state, timerInterval |-> previous[k].timerInterval,
     intervals |-> previous[k].intervals,
     comparisonTimeout |-> previous[k].comparisonTimeout,
     timeouts |-> previous[k].timeouts,
     emitted |-> <<>>, requested |-> FALSE, attached |-> FALSE]

\* what stays of a controller between tasks
Fields(c) ==
    [state |-> c.state, timerInterval |-> c.timerInterval, intervals |-> c.intervals,
     comparisonTimeout |-> c.comparisonTimeout, timeouts |-> c.timeouts]

\* this.gameController = new GameController(): the controller held so far
\* is not destroyed
Replaced == IF IsNull(state) THEN previous ELSE Append(previous, Fields(Ctx))

\* new GameController()
NewController ==
    [state |-> Null, timerInterval |-> FALSE, intervals |-> 0,
     comparisonTimeout |-> "null",
     timeouts |-> <<>>, emitted |-> <<>>, requested |-> FALSE, attached |-> TRUE]

\* App.initializeGame(players): a new controller, its listeners, initGame
\* and, when initGame has resolved, startGame.  Called with the players of
\* the player setup, which opens while the application holds no
\* controller, or by onThemeSelected with the players of the game in play.
AppInitializeGame(n) ==
    /\ IsNull(state) \/ n = Cardinality(PlayerIdx(state))
    /\ games < MaxGames
    /\ previous' = Replaced
    /\ op' = [name |-> "initializeGame", arg |-> n]
    /\ Commit(startGame(initGame(NewController, n, FALSE, generateCards(NumPairs))), "void")
    /\ games' = games + 1
    /\ UNCHANGED <<flips, initTask, scoreCall, writes>>

\* App.startNewGame, confirmed: this.gameController = null
AppStartNewGame ==
    /\ ~IsNull(state)
    /\ games < MaxGames
    /\ previous' = Replaced
    /\ op' = [name |-> "startNewGame", arg |-> 0]
    /\ Commit(NewController, "void")
    /\ UNCHANGED <<games, flips, initTask, scoreCall, writes>>

\* App.onCardFlipped(cardId): returns at once without a controller
AppFlipCard(cardId) ==
    /\ ~IsNull(state)
    /\ FlipCard(cardId)

\* the prompt of showTurnResumePrompt is answered:
\* this.gameController?.resumeGame().  onTurnEnded shows the prompt only
\* when the game of this.gameController has several players.
AppResumeGame ==
    /\ ~IsNull(state)
    /\ Cardinality(PlayerIdx(state)) > 1
    /\ ResumeGame

\* a callback of a replaced controller has run and left it as `r`; its
\* events went to the listeners registered on it, and its turnSwitch ran
\* App.onTurnEnded, which asks and resumes this.gameController
PreviousTask(k, r) ==
    LET handedOff == \E i \in DOMAIN r.emitted : r.emitted[i].type = "turnSwitch"
        cur == IF handedOff THEN onTurnEnded(Ctx) ELSE Ctx
    IN /\ previous' = [previous EXCEPT ![k] = Fields(r)]
       /\ Commit([cur EXCEPT !.emitted = r.emitted \o cur.emitted], "none")
       /\ UNCHANGED <<games, flips, initTask, scoreCall, writes>>

\* the interval of a replaced controller fires
PreviousTimerTick(k) ==
    /\ previous[k].intervals > 0
    /\ op' = [name |-> "previousTimerTick", arg |-> k]
    /\ PreviousTask(k, timerCallback(PreviousCtx(k)))

\* the oldest pending timeout of a replaced controller fires
PreviousComparisonFire(k) ==
    /\ previous[k].timeouts # <<>>
    /\ op' = [name |-> "previousComparison", arg |-> k]
    /\ PreviousTask(k, comparisonCallback(
                          [PreviousCtx(k) EXCEPT !.timeouts = Tail(@)],
                          Head(previous[k].timeouts)))

AppNext ==
    \/ \E n \in 1 .. MaxPlayers : AppInitializeGame(n)
    \/ AppStartNewGame
    \/ \E cardId \in 0 .. (NumCards - 1) : AppFlipCard(cardId)
    \/ AppResumeGame
    \/ TimerTick
    \/ ComparisonFire
    \/ \E k \in DOMAIN previous : PreviousTimerTick(k)
    \/ \E k \in DOMAIN previous : PreviousComparisonFire(k)

AppSpec == Init /\ [][AppNext]_vars

\* ================================================================== claims

\* C1 (as claimed): at most one delayed comparison is pending on a
\* controller at any time.
C1_AtMostOnePendingComparison == Len(timeouts) <= 1

\* C2 (as claimed): when the delayed comparison of two cards with equal
\* pokemonId fires in the game that scheduled it, both cards are matched,
\* currentPlayerIndex is what it was at the second flip and timeRemaining
\* is the full duration.
C2_MatchKeepsPlayerAndResetsTimer ==
    (/\ op.name = "comparison"
     /\ ~IsNull(state)
     /\ ~op.arg.stale
     /\ op.arg.first.pokemonId = op.arg.second.pokemonId)
    => /\ state.cards[op.arg.first.id].isMatched
       /\ state.cards[op.arg.second.id].isMatched
       /\ state.currentPlayerIndex = op.arg.currentPlayer
       /\ state.timeRemaining = TIMER_DURATION

\* C3 (as claimed): when the delayed comparison of two cards with different
\* pokemonId fires in the game that scheduled it, both cards are face-down
\* and currentPlayerIndex is (its value at the second flip + 1) mod
\* playerCount.
C3_MismatchAdvancesTurnByOne ==
    (/\ op.name = "comparison"
     /\ ~IsNull(state)
     /\ ~op.arg.stale
     /\ op.arg.first.pokemonId # op.arg.second.pokemonId)
    => /\ ~state.cards[op.arg.first.id].isFlipped
       /\ ~state.cards[op.arg.second.id].isFlipped
       /\ state.currentPlayerIndex =
              (op.arg.currentPlayer + 1) % Cardinality(DOMAIN state.players)

\* C4 (as claimed): a delayed comparison scheduled by a game that initGame
\* has since replaced changes nothing in the new GameState when its delay
\* elapses and emits no match, mismatch or turnSwitch event.
C4_StaleComparisonIsCancelled ==
    [][(/\ op'.name = "comparison"
        /\ op'.arg.stale
        /\ ~IsNull(state))
       => /\ state' = state
          /\ \A k \in DOMAIN emitted' :
                emitted'[k].type \notin {"match", "mismatch", "turnSwitch"}]_vars

\* C5 (as claimed): once destroy() has run, no timer-tick callback and no
\* delayed-comparison callback is left to fire.
C5_DestroyCancelsAllCallbacks ==
    op.name = "destroy" => (~timerInterval /\ timeouts = <<>>)

\* C6 (as claimed): when isGameOver is true, flipCard returns GAME_OVER for
\* every cardId.
C6_FlipAfterGameOverReturnsGameOver ==
    (op.name = "flipCard" /\ ~IsNull(state) /\ state.isGameOver)
    => result = "GAME_OVER"

\* C7: GameOver is terminal.  From a state with isGameOver, no flipCard,
\* startGame, pauseGame or resumeGame call, timer tick or timeout changes a
\* card, a player's counters or score, currentPlayerIndex, timeRemaining,
\* winner or isGameOver, and the timer interval is and stays stopped.
C7_GameOverIsTerminal ==
    [][(/\ ~IsNull(state)
        /\ state.isGameOver
        /\ op'.name \in {"flipCard", "startGame", "pauseGame", "resumeGame",
                         "timerTick", "comparison"})
       => /\ state'.cards = state.cards
          /\ state'.players = state.players
          /\ state'.currentPlayerIndex = state.currentPlayerIndex
          /\ state'.timeRemaining = state.timeRemaining
          /\ state'.winner = state.winner
          /\ state'.isGameOver
          /\ ~timerInterval
          /\ ~timerInterval']_vars

\* C7 witness: a call made after game over (resumeGame) has run and the
\* game is still over with its timer stopped.
C7_Witness ==
    /\ ~IsNull(state)
    /\ state.isGameOver
    /\ op.name = "resumeGame"
    /\ ~timerInterval

\* C8: in an initialised game, flipCard on a card that is already matched or
\* already flipped returns INVALID, changes no part of the state and emits
\* no event.
C8_FlipOfFaceUpCardIsRejected ==
    [][(/\ op'.name = "flipCard"
        /\ ~IsNull(state)
        /\ op'.arg \in DOMAIN state.cards
        /\ (state.cards[op'.arg].isMatched \/ state.cards[op'.arg].isFlipped))
       => /\ result' = "INVALID"
          /\ state' = state
          /\ UNCHANGED <<timerInterval, comparisonTimeout, timeouts>>
          /\ emitted' = <<>>]_vars

\* C8 witness: a running game in which flipCard was just called on a
\* matched card and returned INVALID.
C8_Witness ==
    /\ op.name = "flipCard"
    /\ ~IsNull(state)
    /\ ~state.isPaused
    /\ op.arg \in DOMAIN state.cards
    /\ state.cards[op.arg].isMatched
    /\ result = "INVALID"

\* C9: in an initialised, not-finished game, flipCard returns INVALID,
\* changes no part of the state and emits no event whenever the game is
\* paused, or cardId is not the id of a card of the deck, or two cards are
\* already in the revealed set.
C9_FlipRejectedWhenPausedUnknownOrFull ==
    [][(/\ op'.name = "flipCard"
        /\ ~IsNull(state)
        /\ ~state.isGameOver
        /\ \/ state.isPaused
           \/ op'.arg \notin DOMAIN state.cards
           \/ Len(state.revealedCards) >= 2)
       => /\ result' = "INVALID"
          /\ state' = state
          /\ UNCHANGED <<timerInterval, comparisonTimeout, timeouts>>
          /\ emitted' = <<>>]_vars

\* C9 witness: flipCard with an id that is no card of the deck, called in a
\* running game while one card is revealed.
C9_Witness ==
    /\ op.name = "flipCard"
    /\ ~IsNull(state)
    /\ ~state.isGameOver
    /\ ~state.isPaused
    /\ op.arg \notin DOMAIN state.cards
    /\ Len(state.revealedCards) = 1
    /\ result = "INVALID"

\* C10 (as claimed): flipCard on an uninitialized controller returns
\* INVALID.
C10_FlipUninitializedReturnsInvalid ==
    (op.name = "flipCard" /\ IsNull(state)) => result = "INVALID"

\* C10 (amended): flipCard on an uninitialized controller (before any
\* initGame, or after destroy) fails with an error instead of returning a
\* result, and no state is created or changed and no event is emitted.
C10_FlipUninitializedThrows ==
    [][(op'.name = "flipCard" /\ IsNull(state))
       => /\ result' = "throw"
          /\ IsNull(state')
          /\ UNCHANGED <<timerInterval, comparisonTimeout, timeouts>>
          /\ emitted' = <<>>]_vars

\* C10 witness: flipCard has failed on a controller that was initialised
\* and then destroyed.
C10_Witness ==
    /\ op.name = "flipCard"
    /\ IsNull(state)
    /\ games > 0
    /\ result = "throw"

\* C11: when the turn timer reaches zero while exactly one unmatched card
\* is revealed, that card is face-down afterwards, the revealed set is
\* empty, no player's totalFlips or matches has changed, the tick has
\* emitted no match and no mismatch event, and currentPlayerIndex has
\* advanced by exactly one modulo the player count.
C11_TimerExpiryWithOneRevealedCard ==
    [][(/\ op'.name = "timerTick"
        /\ ~IsNull(state)
        /\ ~state.isPaused
        /\ state.timeRemaining - 1 <= 0
        /\ Len(state.revealedCards) = 1
        /\ ~state.cards[state.revealedCards[1]].isMatched)
       => /\ ~state'.cards[state.revealedCards[1]].isFlipped
          /\ state'.revealedCards = <<>>
          /\ \A p \in PlayerIdx(state) :
                /\ state'.players[p].totalFlips = state.players[p].totalFlips
                /\ state'.players[p].matches = state.players[p].matches
          /\ \A k \in DOMAIN emitted' : emitted'[k].type \notin {"match", "mismatch"}
          /\ state'.currentPlayerIndex =
                 (state.currentPlayerIndex + 1) % Cardinality(PlayerIdx(state))]_vars

\* C11 witness: in the first game of a two-player controller the only flip
\* made so far was player 0's; the timer has expired on it: the card is
\* face-down again and the turn is player 1's.
C11_Witness ==
    /\ op.name = "timerTick"
    /\ \E k \in DOMAIN emitted : emitted[k].type = "timerExpired"
    /\ ~IsNull(state)
    /\ games = 1
    /\ flips = 1
    /\ Cardinality(PlayerIdx(state)) = 2
    /\ state.players[0].totalFlips = 1
    /\ state.currentPlayerIndex = 1
    /\ state.revealedCards = <<>>
    /\ \A id \in DOMAIN state.cards : ~state.cards[id].isFlipped

\* C12: in every reachable state of an initialised game exactly one player
\* has isActive, that player is players[currentPlayerIndex], and
\* 0 <= currentPlayerIndex < playerCount.
C12_ExactlyOneActivePlayer ==
    ~IsNull(state) =>
        /\ state.currentPlayerIndex >= 0
        /\ state.currentPlayerIndex < Cardinality(PlayerIdx(state))
        /\ {p \in PlayerIdx(state) : state.players[p].isActive} = {state.currentPlayerIndex}

\* C12 witness: a turn switch has moved the turn of a two-player game to
\* player 1, who is the active player.
C12_Witness ==
    /\ ~IsNull(state)
    /\ Cardinality(PlayerIdx(state)) = 2
    /\ \E k \in DOMAIN emitted : emitted[k].type = "turnSwitch"
    /\ state.currentPlayerIndex = 1
    /\ state.players[1].isActive
    /\ ~state.players[0].isActive

\* C13: within one game a matched card is permanently matched and face-up:
\* in every reachable state isMatched implies isFlipped, and no step of the
\* same game (operation, timer tick or comparison) takes a card whose
\* isMatched is true to a state where its isMatched or isFlipped is false.
C13_MatchedCardStaysMatchedAndFaceUp ==
    /\ [](~IsNull(state) =>
            \A id \in DOMAIN state.cards :
                state.cards[id].isMatched => state.cards[id].isFlipped)
    /\ [][(~IsNull(state) /\ ~IsNull(state') /\ games' = games)
           => \A id \in DOMAIN state.cards :
                 state.cards[id].isMatched
                 => (state'.cards[id].isMatched /\ state'.cards[id].isFlipped)]_vars

\* C13 witness: after a pair was matched a third card was flipped and the
\* timer expired on it; that card is face-down again and the matched pair
\* is still matched and face-up.
C13_Witness ==
    /\ op.name = "timerTick"
    /\ \E k \in DOMAIN emitted : emitted[k].type = "timerExpired"
    /\ ~IsNull(state)
    /\ games = 1
    /\ flips = 3
    /\ Cardinality({id \in DOMAIN state.cards :
                        state.cards[id].isMatched /\ state.cards[id].isFlipped}) = 2
    /\ Cardinality({id \in DOMAIN state.cards : ~state.cards[id].isFlipped}) = 2

\* C14: in every reachable state the revealed set holds at most one card
\* (0, 1 or 2 inside a flipCard call), its cards are distinct, face-up and
\* unmatched, and a flipCard call that accepts a second card hands two
\* distinct, face-up, unmatched cards to the comparison and leaves the
\* revealed set empty when it returns.
C14_RevealedSetShape ==
    ~IsNull(state) =>
        /\ Len(state.revealedCards) <= 1
        /\ \A k \in DOMAIN state.revealedCards :
              /\ state.revealedCards[k] \in DOMAIN state.cards
              /\ state.cards[state.revealedCards[k]].isFlipped
              /\ ~state.cards[state.revealedCards[k]].isMatched
        /\ \A cardId \in DOMAIN state.cards :
              (flipCardResult(Ctx, cardId) = "FIRST_CARD" /\ Len(state.revealedCards) = 1)
              => LET c == flipCard(Ctx, cardId)
                     t == c.timeouts[Len(c.timeouts)]
                 IN /\ c.state.revealedCards = <<>>
                    /\ Len(c.timeouts) = Len(timeouts) + 1
                    /\ t.first.id = state.revealedCards[1]
                    /\ t.second.id = cardId
                    /\ t.first.id # t.second.id
                    /\ \A id \in {t.first.id, t.second.id} :
                          c.state.cards[id].isFlipped /\ ~c.state.cards[id].isMatched

\* C14 witness: flipCard has accepted a second card; the two cards wait
\* face-up for their comparison and the revealed set is empty again.
C14_Witness ==
    /\ op.name = "flipCard"
    /\ result = "FIRST_CARD"
    /\ ~IsNull(state)
    /\ state.revealedCards = <<>>
    /\ Len(timeouts) = 1
    /\ ~timeouts[1].stale
    /\ timeouts[1].second.id = op.arg
    /\ state.cards[timeouts[1].first.id].isFlipped
    /\ state.cards[timeouts[1].second.id].isFlipped

\* C15 (as claimed): startGame, pauseGame and resumeGame called before
\* initGame, and startGame and resumeGame called after game over, fail with
\* an error and change nothing; pauseGame after game over returns normally
\* and changes nothing.
C15_InvalidLifecycleCallsFail ==
    [][/\ ((\/ op'.name \in {"startGame", "pauseGame", "resumeGame"} /\ IsNull(state)
            \/ /\ op'.name \in {"startGame", "resumeGame"}
               /\ ~IsNull(state)
               /\ state.isGameOver)
           => /\ result' = "throw"
              /\ UNCHANGED <<state, timerInterval, comparisonTimeout, timeouts>>
              /\ emitted' = <<>>)
       /\ ((op'.name = "pauseGame" /\ ~IsNull(state) /\ state.isGameOver)
           => /\ result' = "void"
              /\ UNCHANGED <<state, timerInterval, comparisonTimeout, timeouts>>
              /\ emitted' = <<>>)]_vars

\* C15 (amended): called before initGame or after game over, startGame
\* fails with an error, and pauseGame and resumeGame return normally; none
\* of the three changes anything or emits an event.
C15_InvalidLifecycleCallsChangeNothing ==
    [][(/\ op'.name \in {"startGame", "pauseGame", "resumeGame"}
        /\ (IsNull(state) \/ state.isGameOver))
       => /\ result' = (IF op'.name = "startGame" THEN "throw" ELSE "void")
          /\ UNCHANGED <<state, timerInterval, comparisonTimeout, timeouts>>
          /\ emitted' = <<>>]_vars

\* C15 witness: pauseGame was called on a controller that never had a game
\* and returned without an error.
C15_Witness ==
    /\ op.name = "pauseGame"
    /\ IsNull(state)
    /\ games = 0
    /\ result = "void"
    /\ emitted = <<>>

\* C16: initGame with a player list of length 0 or of length greater than
\* 4 fails with an error; the controller's fields are what they were before
\* the call, no event is emitted and the provider is not asked for a deck.
C16_InitGameRejectsBadPlayerCount ==
    [][(op'.name = "initGame" /\ (op'.arg = 0 \/ op'.arg > 4))
       => /\ result' = "throw"
          /\ UNCHANGED <<state, timerInterval, comparisonTimeout, timeouts>>
          /\ emitted' = <<>>
          /\ ~requested']_vars

\* C16 witness: initGame with five players has failed on a controller whose
\* game is running, and that game is still running.
C16_Witness ==
    /\ op.name = "initGame"
    /\ op.arg = 5
    /\ result = "throw"
    /\ ~requested
    /\ ~IsNull(state)
    /\ ~state.isPaused
    /\ timerInterval

\* C17: when the provider fails while the deck is being built, initGame
\* fails, the controller's fields are what they were before the call (no
\* new or partial GameState) and no event, stateChange included, is emitted.
C17_InitGameIsAllOrNothing ==
    [][op'.name = "initGameFail"
       => /\ requested'
          /\ result' = "throw"
          /\ UNCHANGED <<state, timerInterval, comparisonTimeout, timeouts>>
          /\ emitted' = <<>>]_vars

\* C17 witness: the provider has failed under an initGame call made while a
\* game with one card revealed was running; that game is untouched.
C17_Witness ==
    /\ op.name = "initGameFail"
    /\ requested
    /\ result = "throw"
    /\ ~IsNull(state)
    /\ ~state.isPaused
    /\ Len(state.revealedCards) = 1

C19_DeckIsPairedAndPermuted ==
    (initTask.pc = "installed" /\ Length(initTask.pokemon) = NumPairs) =>
        LET deck == initTask.shuffled
            generated == initTask.cards
        IN /\ Length(deck) = NumCards
           /\ \A k \in DOMAIN deck :
                 Cardinality({m \in DOMAIN deck : deck[m].pokemonId = deck[k].pokemonId}) = 2
           /\ \A k, m \in DOMAIN deck : deck[k].id = deck[m].id => k = m
           /\ DOMAIN deck = DOMAIN generated
           /\ \A k \in DOMAIN generated :
                 Cardinality({m \in DOMAIN deck : deck[m] = generated[k]})
                     = Cardinality({m \in DOMAIN generated : generated[m] = generated[k]})
           /\ ~IsNull(state)
           /\ state.cards = cardsById(deck)

\* C19 witness: a game is installed whose deck of totalCards cards the
\* shuffle has reordered: the two cards of the first Pokemon are no longer
\* the first two of the deck.
C19_Witness ==
    /\ initTask.pc = "installed"
    /\ Length(initTask.pokemon) = NumPairs
    /\ ~IsNull(state)
    /\ Length(initTask.shuffled) = NumCards
    /\ initTask.shuffled[0].pokemonId # initTask.shuffled[1].pokemonId
    /\ initTask.shuffled # initTask.cards

C21_TimeRemainingDecreasesOnlyByRunningTicks ==
    [][ /\ ( /\ ~IsNull(state) /\ ~IsNull(state') /\ games' = games
             /\ state'.timeRemaining < state.timeRemaining )
           => /\ op'.name = "timerTick"
              /\ ~state.isPaused /\ ~state.isGameOver
              /\ state'.timeRemaining = state.timeRemaining - 1
        /\ ( op'.name = "timerTick" /\ ~IsNull(state) /\ ~state.isPaused /\ ~state.isGameOver )
           => /\ emitted' # <<>>
              /\ emitted'[1] = [type |-> "timerTick", timeRemaining |-> state.timeRemaining - 1]
              /\ Cardinality({k \in DOMAIN emitted' : emitted'[k].type = "timerTick"}) = 1
              /\ IF state.timeRemaining - 1 > 0
                 THEN state'.timeRemaining = state.timeRemaining - 1
                 ELSE /\ \E k \in DOMAIN emitted' : emitted'[k].type = "timerExpired"
                      /\ state'.timeRemaining = TIMER_DURATION
        /\ ( op'.name = "timerTick" /\ ~IsNull(state) /\ (state.isPaused \/ state.isGameOver) )
           => /\ state' = state
              /\ emitted' = <<>>
      ]_vars

\* a tick of a running game has taken timeRemaining from 2 to 1
C21_Witness ==
    /\ op.name = "timerTick"
    /\ ~IsNull(state)
    /\ ~state.isPaused
    /\ state.timeRemaining = TIMER_DURATION - 1
    /\ emitted = <<[type |-> "timerTick", timeRemaining |-> TIMER_DURATION - 1]>>

C23_GameOverRanksPlayersAndNamesWinners ==
    \A k \in DOMAIN emitted :
        emitted[k].type = "gameOver"
        => LET finalScores == emitted[k].finalScores
               winners == emitted[k].winners
               best == {p \in PlayerIdx(state) :
                           \A q \in PlayerIdx(state) :
                               state.players[p].score >= state.players[q].score}
           IN /\ state.isGameOver
              /\ Len(finalScores) = Cardinality(PlayerIdx(state))
              /\ {finalScores[i] : i \in DOMAIN finalScores} = PlayerIdx(state)
              /\ \A i, j \in DOMAIN finalScores :
                     i < j => state.players[finalScores[i]].score
                                  >= state.players[finalScores[j]].score
              /\ {winners[i] : i \in DOMAIN winners} = best
              /\ Len(winners) = Cardinality(best)
              /\ IF Cardinality(best) = 1
                 THEN state.winner \in best
                 ELSE state.winner = NoPlayer

\* a two-player game has ended in a tie: each player matched one pair in
\* two flips, both are winners of the event and state.winner is null
C23_Witness ==
    /\ op.name = "comparison"
    /\ ~IsNull(state)
    /\ state.isGameOver
    /\ Cardinality(PlayerIdx(state)) = 2
    /\ state.players[0].score = 500
    /\ state.players[1].score = 500
    /\ state.winner = NoPlayer
    /\ \E k \in DOMAIN emitted :
          /\ emitted[k].type = "gameOver"
          /\ emitted[k].winners = <<0, 1>>
          /\ emitted[k].finalScores = <<0, 1>>

\* C24: within one game, a task emits gameOver exactly when it matches the
\* last unmatched pair, and then once; a game that is over stays over and
\* no later task of that game emits gameOver again, so one game emits
\* gameOver at most once, whatever the order of flips, ticks and pending
\* comparisons.
C24_GameOverOnceAtLastMatch ==
    [][ /\ Cardinality({k \in DOMAIN emitted' : emitted'[k].type = "gameOver"}) <= 1
        /\ (\E k \in DOMAIN emitted' : emitted'[k].type = "gameOver")
           <=> /\ ~IsNull(state) /\ ~IsNull(state') /\ games' = games
               /\ \E id \in DOMAIN state.cards : ~state.cards[id].isMatched
               /\ \A id \in DOMAIN state'.cards : state'.cards[id].isMatched
        /\ (~IsNull(state) /\ state.isGameOver /\ games' = games)
           => /\ \A k \in DOMAIN emitted' : emitted'[k].type # "gameOver"
              /\ ~IsNull(state') => state'.isGameOver
      ]_vars

\* the comparison of the fourth flip of a single-player game has matched
\* the last pair and emitted gameOver, once
C24_Witness ==
    /\ op.name = "comparison"
    /\ ~IsNull(state)
    /\ Cardinality(PlayerIdx(state)) = 1
    /\ flips = NumCards
    /\ \A id \in DOMAIN state.cards : state.cards[id].isMatched
    /\ state.isGameOver
    /\ Cardinality({k \in DOMAIN emitted : emitted[k].type = "gameOver"}) = 1
    /\ \E k \in DOMAIN emitted :
          emitted[k].type = "match" /\ k < Len(emitted) /\ emitted[k + 1].type = "gameOver"

\* C30: in every state between two tasks of an initialised game,
\* isGameOver is true if and only if every card of the deck is matched.
C30_GameOverIffAllCardsMatched ==
    ~IsNull(state)
    => (state.isGameOver <=> \A id \in DOMAIN state.cards : state.cards[id].isMatched)

\* a two-player game is over with every card matched, won by player 1
C30_Witness ==
    /\ ~IsNull(state)
    /\ Cardinality(PlayerIdx(state)) = 2
    /\ Cardinality(DOMAIN state.cards) = NumCards
    /\ \A id \in DOMAIN state.cards : state.cards[id].isMatched
    /\ state.isGameOver
    /\ state.winner = 1

\* C26: an accepted flip turns the flipped card face-up and changes no other
\* card and no other field of that card; it adds 1 to the active player's
\* totalFlips and changes no other counter or flag of any player; it emits
\* cardFlipped once and nothing else; currentPlayerIndex, timeRemaining,
\* isPaused, isGameOver and winner are as before.  Of the GameState only
\* these and the revealed set change.
C26_AcceptedFlipFrame ==
    [][(op'.name = "flipCard" /\ result' = "FIRST_CARD")
       => LET id == op'.arg
              i == state.currentPlayerIndex
          IN /\ ~state.cards[id].isFlipped
             /\ state'.cards = [state.cards EXCEPT ![id].isFlipped = TRUE]
             /\ state'.players = [state.players EXCEPT ![i].totalFlips = @ + 1]
             /\ state'.revealedCards \in {Append(state.revealedCards, id), <<>>}
             /\ emitted' = <<[type |-> "cardFlipped", card |-> id, player |-> i]>>
             /\ state'.currentPlayerIndex = state.currentPlayerIndex
             /\ state'.timeRemaining = state.timeRemaining
             /\ state'.isPaused = state.isPaused
             /\ state'.isGameOver = state.isGameOver
             /\ state'.winner = state.winner
             /\ timerInterval' = timerInterval]_vars

\* player 1 of a two-player game has flipped a first card after player 0
\* flipped two: only player 1's totalFlips counts it
C26_Witness ==
    /\ op.name = "flipCard"
    /\ result = "FIRST_CARD"
    /\ ~IsNull(state)
    /\ Cardinality(PlayerIdx(state)) = 2
    /\ state.currentPlayerIndex = 1
    /\ state.players[0].totalFlips = 2
    /\ state.players[1].totalFlips = 1
    /\ state.revealedCards = <<op.arg>>
    /\ state.cards[op.arg].isFlipped
    /\ emitted = <<[type |-> "cardFlipped", card |-> op.arg, player |-> 1]>>

C25_ScoreIsRoundedRatioAndMonotone ==
    scoreCall.pc = "returned"
    => LET m == scoreCall.matches
           t == scoreCall.totalFlips
           s == scoreCall.score
       IN /\ t = 0 => s = 0
          /\ t # 0 => /\ 2 * t * s - t <= 2000 * m
                      /\ 2000 * m < 2 * t * s + t
          /\ \A m2 \in 0 .. m : calculatePlayerScore(m2, t) <= s

\* the call with 1 match in 16 flips has returned 63: 62.5 rounded up
C25_Witness ==
    /\ scoreCall.pc = "returned"
    /\ scoreCall.matches = 1
    /\ scoreCall.totalFlips = 16
    /\ scoreCall.score = 63

\* C28 (as claimed): a value the controller handed out (the result of
\* getGameState or getCurrentPlayer, the detail of stateChange) is not and
\* does not alias the controller's GameState, Player or Card objects: when
\* the receiver assigns to it, the controller's state is what it was.
C28_CallerWritesLeaveControllerUnchanged ==
    [][op'.name \in {"writeSnapshotField", "writeSnapshotCard",
                     "writeCurrentPlayer", "writeStateChangeDetail"}
       => state' = state]_vars

\* C29 (as claimed): once the application has begun a new game, the
\* controller it held before is quiet: its interval is cleared and it has
\* no comparison pending, so none of its callbacks runs, none of its events
\* reaches the application's listeners and none makes the application
\* call resumeGame on the new controller.
C29_ReplacedControllerIsQuiet ==
    /\ \A k \in DOMAIN previous :
          /\ ~previous[k].timerInterval
          /\ previous[k].timeouts = <<>>
    /\ op.name \in {"previousTimerTick", "previousComparison"} => emitted = <<>>

\* C31: in every state of a finished game each player's stored score is
\* calculatePlayerScore of that player's matches and totalFlips; and in the
\* state a match resolution leaves, the player whose matches it raised,
\* the one at currentPlayerIndex, has the score of its counters.
C31_StoredScoreIsScoreOfCounters ==
    /\ (~IsNull(state) /\ state.isGameOver)
       => \A p \in PlayerIdx(state) :
              state.players[p].score =
                  calculatePlayerScore(state.players[p].matches, state.players[p].totalFlips)
    /\ (/\ ~IsNull(state)
        /\ op.name = "comparison"
        /\ \E k \in DOMAIN emitted : emitted[k].type = "match")
       => LET p == state.players[state.currentPlayerIndex]
          IN /\ p.matches >= 1
             /\ p.score = calculatePlayerScore(p.matches, p.totalFlips)

\* player 0 of a two-player game has matched a pair with its first two
\* flips, the game going on: 1 match in 2 flips scores 500
C31_Witness ==
    /\ op.name = "comparison"
    /\ \E k \in DOMAIN emitted : emitted[k].type = "match"
    /\ ~IsNull(state)
    /\ ~state.isGameOver
    /\ Cardinality(PlayerIdx(state)) = 2
    /\ state.currentPlayerIndex = 0
    /\ state.players[0].matches = 1
    /\ state.players[0].totalFlips = 2
    /\ state.players[0].score = 500

\* C32 (as claimed): while a comparison scheduled by the installed game is
\* waiting for its delay, a firing of the tick interval leaves
\* timeRemaining as it is and emits neither timerExpired nor turnSwitch.
C32_NoTickInsideComparisonWindow ==
    [][(/\ ~IsNull(state)
        /\ \E k \in DOMAIN timeouts : ~timeouts[k].stale
        /\ op'.name = "timerTick")
       => /\ ~IsNull(state')
          /\ state'.timeRemaining = state.timeRemaining
          /\ \A k \in DOMAIN emitted' :
                emitted'[k].type \notin {"timerTick", "timerExpired", "turnSwitch"}]_vars

\* C33 (as claimed): when the comparison of a pair scheduled by the
\* installed game resolves as a match, the one player whose matches
\* counter rises is the player of the emitted match event, the player who
\* was current when the second card of the pair was flipped.
C33_CreditedPlayerIsPlayerOfMatchEvent ==
    [][(/\ op'.name = "comparison"
        /\ ~op'.arg.stale
        /\ ~IsNull(state)
        /\ ~IsNull(state')
        /\ \E k \in DOMAIN emitted' : emitted'[k].type = "match")
       => /\ \A k \in DOMAIN emitted' :
                emitted'[k].type = "match" => emitted'[k].player = op'.arg.currentPlayer
          /\ \A p \in PlayerIdx(state') :
                state'.players[p].matches # state.players[p].matches
                    => p = op'.arg.currentPlayer]_vars

\* C34 (as claimed): in every state of a controller's first game every
\* player has 2 * matches <= totalFlips and a score from 0 to 500, and
\* once the game is over every player's record passes the validation of
\* the score submission.
C34_MatchesAtMostHalfOfFlips ==
    (games = 1 /\ ~IsNull(state))
    => /\ \A p \in PlayerIdx(state) :
            /\ 2 * state.players[p].matches <= state.players[p].totalFlips
            /\ state.players[p].score \in 0 .. 500
       /\ state.isGameOver
            => \A p \in PlayerIdx(state) : validateRequest(state.players[p])

\* C35 (as claimed): while isPaused is true, a step that is none of
\* startGame, resumeGame, initGame and destroy, and not the callback of a
\* replaced game, changes no card, no player's totalFlips, matches or
\* score and not currentPlayerIndex.
C35_PauseFreezesGameState ==
    [][(/\ ~IsNull(state)
        /\ state.isPaused
        /\ ~IsNull(state')
        /\ op'.name \notin {"startGame", "resumeGame", "initGame", "initGameFail", "destroy"}
        /\ (op'.name = "comparison" => ~op'.arg.stale))
       => /\ state'.cards = state.cards
          /\ state'.currentPlayerIndex = state.currentPlayerIndex
          /\ \A p \in PlayerIdx(state) :
                /\ state'.players[p].totalFlips = state.players[p].totalFlips
                /\ state'.players[p].matches = state.players[p].matches
                /\ state'.players[p].score = state.players[p].score]_vars

\* C36 (as claimed): in the state a turn hand-off leaves (a timer expiry
\* or the mismatch of a comparison of the installed game emitted
\* turnSwitch) the revealed set is empty and every card that is not
\* matched is face-down.
C36_HandOffLeavesCleanBoard ==
    (/\ ~IsNull(state)
     /\ op.name \in {"timerTick", "comparison"}
     /\ (op.name = "comparison" => ~op.arg.stale)
     /\ \E k \in DOMAIN emitted : emitted[k].type = "turnSwitch")
    => /\ state.revealedCards = <<>>
       /\ \A id \in DOMAIN state.cards :
             ~state.cards[id].isMatched => ~state.cards[id].isFlipped

\* C37: in every state of a controller's first game the players' matches
\* add up to half the number of matched cards, and every matched card has
\* a matched partner with the same pokemonId (the matched cards are whole
\* pairs, so their number is even).
C37_MatchesCountMatchedPairs ==
    (games = 1 /\ ~IsNull(state))
    => LET matched == {id \in DOMAIN state.cards : state.cards[id].isMatched}
           credits == {<<p, k>> \in PlayerIdx(state) \X (1 .. NumPairs) :
                          k <= state.players[p].matches}
       IN /\ \A p \in PlayerIdx(state) : state.players[p].matches \in 0 .. NumPairs
          /\ 2 * Cardinality(credits) = Cardinality(matched)
          /\ Cardinality(matched) % 2 = 0
          /\ \A id \in matched :
                \E other \in matched \ {id} :
                    state.cards[other].pokemonId = state.cards[id].pokemonId

\* a two-player game in which each player has been credited one pair and
\* all four cards are matched
C37_Witness ==
    /\ games = 1
    /\ ~IsNull(state)
    /\ Cardinality(PlayerIdx(state)) = 2
    /\ state.players[0].matches = 1
    /\ state.players[1].matches = 1
    /\ \A id \in DOMAIN state.cards : state.cards[id].isMatched

\* C38: in every state of a controller's first game every card that is
\* face-up and not matched is in the revealed set or is one of the two
\* cards of a comparison whose delay has not elapsed; so with an empty
\* revealed set and no such comparison every unmatched card is face-down.
C38_FaceUpCardIsRevealedOrAwaitingComparison ==
    (games = 1 /\ ~IsNull(state))
    => LET revealed == {state.revealedCards[k] : k \in DOMAIN state.revealedCards}
           awaiting == UNION {{timeouts[k].first.id, timeouts[k].second.id} :
                                 k \in DOMAIN timeouts}
       IN /\ \A id \in DOMAIN state.cards :
                (state.cards[id].isFlipped /\ ~state.cards[id].isMatched)
                    => id \in revealed \cup awaiting
          /\ (state.revealedCards = <<>> /\ timeouts = <<>>)
                => \A id \in DOMAIN state.cards :
                       ~state.cards[id].isMatched => ~state.cards[id].isFlipped

\* the timer has expired while a comparison was waiting: the revealed set
\* is empty and the two face-up cards are those of the comparison
C38_Witness ==
    /\ games = 1
    /\ ~IsNull(state)
    /\ op.name = "timerTick"
    /\ \E k \in DOMAIN emitted : emitted[k].type = "timerExpired"
    /\ state.revealedCards = <<>>
    /\ Len(timeouts) = 1
    /\ state.cards[timeouts[1].first.id].isFlipped
    /\ ~state.cards[timeouts[1].first.id].isMatched
    /\ state.cards[timeouts[1].second.id].isFlipped

\* C39: a controller never has more than one tick interval set, the one
\* this.timerInterval names, and whenever its game is initialised, not
\* over and not paused exactly one interval is set.
C39_OneIntervalWhileRunning ==
    /\ intervals \in {0, 1}
    /\ timerInterval <=> (intervals = 1)
    /\ (~IsNull(state) /\ ~state.isGameOver /\ ~state.isPaused) => intervals = 1

\* startGame, or resumeGame, called on a game that is running already:
\* the interval is the one set before
C39_Witness ==
    /\ op.name \in {"startGame", "resumeGame"}
    /\ result = "void"
    /\ ~IsNull(state)
    /\ ~state.isPaused
    /\ state.timeRemaining < TIMER_DURATION
    /\ intervals = 1

\* C40: in every state of an initialised game, between tasks,
\* timeRemaining is an integer from 1 to TIMER_DURATION.
C40_TimeRemainingWithinTurn ==
    ~IsNull(state) => state.timeRemaining \in 1 .. TIMER_DURATION

\* the tick that brought timeRemaining to 0 has been handled: the turn was
\* handed off and timeRemaining is the full duration again
C40_Witness ==
    /\ op.name = "timerTick"
    /\ \E k \in DOMAIN emitted :
          emitted[k].type = "timerTick" /\ emitted[k].timeRemaining = 0
    /\ ~IsNull(state)
    /\ state.timeRemaining = TIMER_DURATION

====
